---- MODULE Spec2Model ----
(***************************************************************************)
(* Character-level maximum-likelihood language model                       *)
(* (src/MaxLikelihoodModel.ipynb): train_char_lm builds a table            *)
(* history -> [(char, probability)], generate_letter samples one           *)
(* character from it, generate_text runs generate_letter in a loop.        *)
(*                                                                         *)
(* Strings are sequences of one-character strings.  Python floats are      *)
(* binary floating-point numbers with round-to-nearest-even; the model     *)
(* keeps that arithmetic and narrows the significand from 53 bits to       *)
(* MantissaBits bits.  A float is a pair <<m, e>> standing for m / 2^e,    *)
(* in canonical form (m odd, or e = 0).                                    *)
(***************************************************************************)
EXTENDS Integers, Sequences, FiniteSets, TLC

\* ------------------------------------------------------------------ bounds
MaxLen == 3
MaxOrder == 2
MaxLetters == 3
MantissaBits == 5

\* --------------------------------------------------------------- alphabet
Sentinel == "~"
Chars == {"a", "b", Sentinel}

\* ------------------------------------------------- Python string semantics
Min(a, b) == IF a < b THEN a ELSE b
Max(a, b) == IF a > b THEN a ELSE b

\* variant: no padding at all
Repeat_Nothing(c, n) == <<>>

\* "~" * n : the empty string when n <= 0
Repeat(c, n) == [j \in 1..Max(n, 0) |-> c]

\* a slice bound as Python normalises it: negative counts from the end,
\* then clamped to 0..len
SliceBound(len, b) == IF b < 0 THEN Max(len + b, 0) ELSE Min(b, len)

\* variant: the upper bound is included
PySlice_Inclusive(s, lo, hi) ==
    LET l == SliceBound(Len(s), lo)
        h == Min(SliceBound(Len(s), hi) + 1, Len(s))
    IN  IF l >= h THEN <<>> ELSE SubSeq(s, l + 1, h)

\* s[lo:hi] with 0-based bounds
PySlice(s, lo, hi) ==
    LET l == SliceBound(Len(s), lo)
        h == SliceBound(Len(s), hi)
    IN  IF l >= h THEN <<>> ELSE SubSeq(s, l + 1, h)

\* s[-n:] ;  -0 is 0, so s[-0:] is the whole string
PyTail(s, n) == PySlice(s, 0 - n, Len(s))

\* s[j] : defined iff -len <= j < len
PyIndexOK(s, j) == (0 - Len(s)) <= j /\ j < Len(s)

\* variant: reads the character one place to the left
PyIndex_Previous(s, j) == IF j < 0 THEN s[Len(s) + j + 1] ELSE s[Max(j, 1)]

PyIndex(s, j) == IF j < 0 THEN s[Len(s) + j + 1] ELSE s[j + 1]

\* ------------------------------------------------- floating-point numbers
RECURSIVE Pow2(_)
Pow2(n) == IF n <= 0 THEN 1 ELSE 2 * Pow2(n - 1)

RECURSIVE Canon(_, _)
Canon(m, e) == IF e > 0 /\ m % 2 = 0 THEN Canon(m \div 2, e - 1) ELSE <<m, e>>

\* 2^(MantissaBits-1): a significand m satisfies HalfRange <= m < 2 * HalfRange
HalfRange == Pow2(MantissaBits - 1)

\* least e >= 0 with n * 2^e / d >= HalfRange, given n * 2^e as ne
RECURSIVE ScaleExp(_, _, _)
ScaleExp(ne, d, e) ==
    IF ne >= HalfRange * d THEN e ELSE ScaleExp(2 * ne, d, e + 1)

\* the float nearest to n/d (0 <= n/d < 2), ties to even
RoundRat(n, d) ==
    IF n = 0 THEN <<0, 0>>
    ELSE LET e == ScaleExp(n, d, 0)
             ne == n * Pow2(e)
             q == ne \div d
             r == ne % d
             up == (2 * r > d) \/ (2 * r = d /\ q % 2 = 1)
         IN  Canon(IF up THEN q + 1 ELSE q, e)

\* cnt / s with s a float holding an integer
FloatDiv(cnt, s) == RoundRat(cnt, s)

\* x - v, correctly rounded
FloatSub(x, v) ==
    LET E == Max(x[2], v[2])
        num == x[1] * Pow2(E - x[2]) - v[1] * Pow2(E - v[2])
    IN  IF num >= 0 THEN RoundRat(num, Pow2(E))
        ELSE LET a == RoundRat(0 - num, Pow2(E)) IN <<0 - a[1], a[2]>>

\* the values random() can return: k / 2^MantissaBits, 0 <= k < 2^MantissaBits
Uniform(k) == Canon(k, MantissaBits)
Draws == 0..(Pow2(MantissaBits) - 1)

\* ------------------------------------------------------------- the inputs
\* every string over Chars of length <= n
Strings(n) == UNION {[1..k -> Chars] : k \in 0..n}

\* a corpus in which the history "a" is followed by b once, c three times,
\* "~" once and a four times, in that order of first appearance
SkewedCorpus ==
    <<"a", "b", "a", "c", "a", "c", "a", "c", "a", "~", "a", "a", "a", "a", "a">>

Corpora == Strings(MaxLen) \cup {SkewedCorpus}
Orders == (0 - 1)..MaxOrder

\* generate_text is called with the order of the training, or with a larger one
GenOrders(ord) == {ord, ord + 1}

\* --------------------------------------------------------------- the state
VARIABLES
    fdata,      \* what f.read() returned
    order,      \* train_char_lm's order
    data,       \* train_char_lm's data
    i,          \* train_char_lm's loop index
    lm,         \* train_char_lm's lm: history -> counter
    outlm,      \* the table train_char_lm returned
    pc,         \* where the program is
    err,        \* the exception that ended a call, or None
    gorder,     \* generate_text's order
    nletters,   \* generate_text's nletters
    history,    \* generate_text's history
    out,        \* generate_text's out
    k,          \* generate_text's loop index
    ndraws,     \* calls of random() in the current generate_text call
    result,     \* what generate_text returned, or None
    twin        \* a second run of generate_text, fed the same draws

vars == <<fdata, order, data, i, lm, outlm, pc, err,
          gorder, nletters, history, out, k, ndraws, result, twin>>

trainVars == <<fdata, order, data, i, lm>>
genVars == <<gorder, nletters, history, out, k, ndraws, result>>

None == "None"
EmptyDict == [h \in {} |-> <<>>]

\* variant: the loop runs one iteration too many
LoopCount_OffByOne == Len(data) - order + 1

\* variant: the loop stops one iteration early
LoopCount_Short == Len(data) - order - 1

\* range(len(data)-order): the number of iterations of the training loop
LoopCount == Len(data) - order

\* the program has left train_char_lm with a table
Trained == pc \in {"trained", "gen", "returned", "gen_raised"}

\* ----------------------------------------------------------- train_char_lm
\* counter[c] += 1 on a Counter: a dict in insertion order, a missing key
\* counts as 0 and is inserted at the end
RECURSIVE CounterFind(_, _, _)
CounterFind(counter, c, j) ==
    IF j > Len(counter) THEN 0
    ELSE IF counter[j][1] = c THEN j ELSE CounterFind(counter, c, j + 1)

\* variant: a repeated character overwrites its count instead of adding to it
CounterInc_Overwrites(counter, c) ==
    LET j == CounterFind(counter, c, 1)
    IN  IF j = 0 THEN Append(counter, <<c, 1>>)
        ELSE [counter EXCEPT ![j] = <<c, 1>>]

CounterInc(counter, c) ==
    LET j == CounterFind(counter, c, 1)
    IN  IF j = 0 THEN Append(counter, <<c, 1>>)
        ELSE [counter EXCEPT ![j] = <<c, counter[j][2] + 1>>]

\* lm[history][char] += 1 on a defaultdict(Counter)
LmInc(d, h, c) ==
    IF h \in DOMAIN d THEN [d EXCEPT ![h] = CounterInc(d[h], c)]
    ELSE (h :> CounterInc(<<>>, c)) @@ d

\* sum(counter.values())
RECURSIVE CounterSum(_, _)
CounterSum(counter, j) ==
    IF j > Len(counter) THEN 0 ELSE counter[j][2] + CounterSum(counter, j + 1)

\* variant: divides by the number of distinct characters, not by the total
normalize_ByDistinct(counter) ==
    [j \in 1..Len(counter) |-> <<counter[j][1], FloatDiv(counter[j][2], Len(counter))>>]

\* variant: add-one smoothing
normalize_AddOne(counter) ==
    LET s == CounterSum(counter, 1) + Len(counter)
    IN  [j \in 1..Len(counter) |-> <<counter[j][1], FloatDiv(counter[j][2] + 1, s)>>]

\* normalize: counts stay below 2^MantissaBits, so float(sum) is exact
normalize(counter) ==
    LET s == CounterSum(counter, 1)
    IN  [j \in 1..Len(counter) |-> <<counter[j][1], FloatDiv(counter[j][2], s)>>]

Init ==
    /\ fdata \in Corpora
    /\ order \in Orders
    /\ data = fdata
    /\ i = 0
    /\ lm = EmptyDict
    /\ outlm = EmptyDict
    /\ pc = "call"
    /\ err = None
    /\ gorder = 0
    /\ nletters = 0
    /\ history = <<>>
    /\ out = <<>>
    /\ k = 0
    /\ ndraws = 0
    /\ result = None
    /\ twin = [pc |-> "idle"]

\* lm = defaultdict(Counter); pad = "~" * order; data = pad + data
TrainPad ==
    /\ pc = "call"
    /\ data' = Repeat(Sentinel, order) \o data
    /\ lm' = EmptyDict
    /\ i' = 0
    /\ pc' = "loop"
    /\ UNCHANGED <<fdata, order, outlm, err>>
    /\ UNCHANGED <<genVars, twin>>

\* one iteration of  for i in range(len(data)-order)
TrainStep ==
    /\ pc = "loop"
    /\ i < LoopCount
    /\ IF PyIndexOK(data, i + order)
       THEN /\ lm' = LmInc(lm, PySlice(data, i, i + order), PyIndex(data, i + order))
            /\ i' = i + 1
            /\ UNCHANGED <<pc, err>>
       ELSE /\ pc' = "train_raised"
            /\ err' = "IndexError"
            /\ UNCHANGED <<lm, i>>
    /\ UNCHANGED <<fdata, order, data, outlm>>
    /\ UNCHANGED <<genVars, twin>>

\* the loop is over: outlm = {hist: normalize(chars) ...}; return outlm
TrainReturn ==
    /\ pc = "loop"
    /\ i >= LoopCount
    /\ outlm' = [h \in DOMAIN lm |-> normalize(lm[h])]
    /\ pc' = "trained"
    /\ UNCHANGED <<trainVars, err>>
    /\ UNCHANGED <<genVars, twin>>

\* --------------------------------------------------------- generate_letter
\* variant: a table that inserts an empty entry for a missing key (defaultdict)
DictLookupEffect_Inserting(d, h) == IF h \in DOMAIN d THEN d ELSE (h :> <<>>) @@ d

\* lm[history] on the dict train_char_lm returned: the table afterwards
DictLookupEffect(d, h) == d

\* variant: smoothing, a draw of exactly 0 yields "b" whatever the distribution
RECURSIVE SampleWalk_Smoothed(_, _, _)
SampleWalk_Smoothed(dist, j, x) ==
    IF j = 1 /\ x[1] = 0 THEN "b"
    ELSE IF j > Len(dist) THEN None
    ELSE LET x2 == FloatSub(x, dist[j][2])
         IN  IF x2[1] <= 0 THEN dist[j][1] ELSE SampleWalk_Smoothed(dist, j + 1, x2)

\* for c,v in dist: x = x - v; if x <= 0: return c     (None when the loop ends)
RECURSIVE SampleWalk(_, _, _)
SampleWalk(dist, j, x) ==
    IF j > Len(dist) THEN None
    ELSE LET x2 == FloatSub(x, dist[j][2])
         IN  IF x2[1] <= 0 THEN dist[j][1] ELSE SampleWalk(dist, j + 1, x2)

\* variant: an unobserved history falls back to the sentinel instead of failing
generate_letter_Default(table, hist, ord, x) ==
    LET h == PyTail(hist, ord)
    IN  IF h \notin DOMAIN table
        THEN [raised |-> None, c |-> Sentinel, drew |-> 0, table |-> table]
        ELSE [raised |-> None, c |-> SampleWalk(table[h], 1, Uniform(x)), drew |-> 1,
              table |-> table]

\* generate_letter(lm, history, order) when random() returns Uniform(x):
\* what it raises or returns, the table afterwards, whether random() was called
generate_letter(table, hist, ord, x) ==
    LET h == PyTail(hist, ord)
    IN  IF h \notin DOMAIN table
        THEN [raised |-> "KeyError", c |-> None, drew |-> 0,
              table |-> DictLookupEffect(table, h)]
        ELSE [raised |-> None, c |-> SampleWalk(table[h], 1, Uniform(x)), drew |-> 1,
              table |-> DictLookupEffect(table, h)]

\* ----------------------------------------------------------- generate_text
\* variant: the sampled character is not appended to out
GenIterate_DropsOutput(g, x) ==
    LET r == generate_letter(g.table, g.history, g.order, x)
    IN  IF r.raised # None
        THEN [g EXCEPT !.pc = "gen_raised", !.err = r.raised]
        ELSE IF r.c = None
        THEN [g EXCEPT !.ndraws = @ + r.drew, !.pc = "gen_raised", !.err = "TypeError"]
        ELSE [g EXCEPT !.ndraws = @ + r.drew,
                       !.history = PyTail(g.history, g.order) \o <<r.c>>,
                       !.k = g.k + 1]

\* variant: the entry of the history just used is removed from the table
GenIterate_PopsEntry(g, x) ==
    LET r == generate_letter(g.table, g.history, g.order, x)
        h == PyTail(g.history, g.order)
    IN  IF r.raised # None
        THEN [g EXCEPT !.pc = "gen_raised", !.err = r.raised]
        ELSE IF r.c = None
        THEN [g EXCEPT !.ndraws = @ + r.drew, !.pc = "gen_raised", !.err = "TypeError"]
        ELSE [g EXCEPT !.table = [hh \in (DOMAIN r.table) \ {h} |-> r.table[hh]],
                       !.ndraws = @ + r.drew,
                       !.history = h \o <<r.c>>,
                       !.out = Append(g.out, r.c),
                       !.k = g.k + 1]

\* variant: the buffer is never trimmed
GenIterate_NoTrim(g, x) ==
    LET r == generate_letter(g.table, g.history, g.order, x)
    IN  IF r.raised # None
        THEN [g EXCEPT !.table = r.table, !.pc = "gen_raised", !.err = r.raised]
        ELSE IF r.c = None
        THEN [g EXCEPT !.table = r.table, !.ndraws = @ + r.drew,
                       !.pc = "gen_raised", !.err = "TypeError"]
        ELSE [g EXCEPT !.table = r.table, !.ndraws = @ + r.drew,
                       !.history = g.history \o <<r.c>>,
                       !.out = Append(g.out, r.c),
                       !.k = g.k + 1]

\* variant: the buffer is not advanced
GenIterate_NoSlide(g, x) ==
    LET r == generate_letter(g.table, g.history, g.order, x)
    IN  IF r.raised # None
        THEN [g EXCEPT !.table = r.table, !.pc = "gen_raised", !.err = r.raised]
        ELSE IF r.c = None
        THEN [g EXCEPT !.table = r.table, !.ndraws = @ + r.drew,
                       !.pc = "gen_raised", !.err = "TypeError"]
        ELSE [g EXCEPT !.table = r.table, !.ndraws = @ + r.drew,
                       !.out = Append(g.out, r.c),
                       !.k = g.k + 1]

\* one iteration of  for i in range(nletters)  on the generator state g
\* (table, order, history, out, k, ndraws, pc, err); str + None raises TypeError
GenIterate(g, x) ==
    LET r == generate_letter(g.table, g.history, g.order, x)
    IN  IF r.raised # None
        THEN [g EXCEPT !.table = r.table, !.pc = "gen_raised", !.err = r.raised]
        ELSE IF r.c = None
        THEN [g EXCEPT !.table = r.table, !.ndraws = @ + r.drew,
                       !.pc = "gen_raised", !.err = "TypeError"]
        ELSE [g EXCEPT !.table = r.table, !.ndraws = @ + r.drew,
                       !.history = PyTail(g.history, g.order) \o <<r.c>>,
                       !.out = Append(g.out, r.c),
                       !.k = g.k + 1]

\* variant: the buffer starts empty
GenEnter_NoSeed(table, ord, n) ==
    [table |-> table, order |-> ord, nletters |-> n,
     history |-> <<>>, out |-> <<>>, k |-> 0, ndraws |-> 0,
     pc |-> "gen", err |-> None, result |-> None]

\* generate_text's first two statements
GenEnter(table, ord, n) ==
    [table |-> table, order |-> ord, nletters |-> n,
     history |-> Repeat(Sentinel, ord), out |-> <<>>, k |-> 0, ndraws |-> 0,
     pc |-> "gen", err |-> None, result |-> None]

\* return "".join(out)
GenLeave(g) == [g EXCEPT !.pc = "returned", !.result = g.out]

\* the running generate_text call, read from the variables
Gen ==
    [table |-> outlm, order |-> gorder, nletters |-> nletters,
     history |-> history, out |-> out, k |-> k, ndraws |-> ndraws,
     pc |-> pc, err |-> err, result |-> result]

SetGen(g) ==
    /\ outlm' = g.table
    /\ gorder' = g.order
    /\ nletters' = g.nletters
    /\ history' = g.history
    /\ out' = g.out
    /\ k' = g.k
    /\ ndraws' = g.ndraws
    /\ pc' = g.pc
    /\ err' = g.err
    /\ result' = g.result

\* generate_text(lm, order, nletters) is called on the trained table
GenCall ==
    /\ pc \in {"trained", "returned", "gen_raised"}
    /\ \E ord \in GenOrders(order), n \in 0..MaxLetters : SetGen(GenEnter(outlm, ord, n))
    /\ UNCHANGED <<trainVars, twin>>

GenStep ==
    /\ pc = "gen"
    /\ k < nletters
    /\ \E x \in Draws : SetGen(GenIterate(Gen, x))
    /\ UNCHANGED <<trainVars, twin>>

GenReturn ==
    /\ pc = "gen"
    /\ k >= nletters
    /\ SetGen(GenLeave(Gen))
    /\ UNCHANGED <<trainVars, twin>>

Next ==
    \/ TrainPad
    \/ TrainStep
    \/ TrainReturn
    \/ GenCall
    \/ GenStep
    \/ GenReturn

Spec == Init /\ [][Next]_vars

\* ------------------------------------------------- two runs, the same draws
\* The second run builds from the same corpus and order, so it holds the same
\* table; before its generate_text call it may have called generate_letter
\* once, on any history.  Both generate_text calls then get the same order,
\* the same nletters and, step by step, the same value from random().
EarlierHistories == Strings(MaxOrder)

TwinCall ==
    /\ pc = "trained"
    /\ \E ord \in GenOrders(order), n \in 0..MaxLetters :
          /\ SetGen(GenEnter(outlm, ord, n))
          /\ \/ twin' = GenEnter(outlm, ord, n)
             \/ \E hh \in EarlierHistories, x \in {0, Pow2(MantissaBits) - 1} :
                   twin' = GenEnter(generate_letter(outlm, hh, ord, x).table, ord, n)
    /\ UNCHANGED trainVars

TwinStep ==
    /\ pc = "gen"
    /\ k < nletters
    /\ \E x \in Draws :
          /\ SetGen(GenIterate(Gen, x))
          /\ twin' = IF twin.pc = "gen" /\ twin.k < twin.nletters
                     THEN GenIterate(twin, x) ELSE twin
    /\ UNCHANGED trainVars

TwinReturn ==
    /\ pc = "gen"
    /\ k >= nletters
    /\ SetGen(GenLeave(Gen))
    /\ twin' = IF twin.pc = "gen" /\ twin.k >= twin.nletters
               THEN GenLeave(twin) ELSE twin
    /\ UNCHANGED trainVars

NextTwin ==
    \/ TrainPad
    \/ TrainStep
    \/ TrainReturn
    \/ TwinCall
    \/ TwinStep
    \/ TwinReturn

SpecTwin == Init /\ [][NextTwin]_vars

\* ------------------------------------------------- the notebook's own queries
\* lm = train_char_lm("shakespeare_input.txt", order=4); lm['Firs']
QueryOrder == 4
Firs == <<"F", "i", "r", "s">>
First == Firs \o <<"t">>

\* texts around one "First": nothing, other letters, a bare "Firs", a second "First"
Affixes == {<<>>, <<"a">>, <<"t">>, <<"F">>, Firs, First}
FirstCorpora == {p \o First \o q : p, q \in Affixes}

FourAs == <<"a", "a", "a", "a">>

ExampleInputs == ({FourAs} \X {1}) \cup (FirstCorpora \X {QueryOrder})

InitExamples ==
    /\ \E inp \in ExampleInputs : fdata = inp[1] /\ order = inp[2]
    /\ data = fdata
    /\ i = 0
    /\ lm = EmptyDict
    /\ outlm = EmptyDict
    /\ pc = "call"
    /\ err = None
    /\ gorder = 0
    /\ nletters = 0
    /\ history = <<>>
    /\ out = <<>>
    /\ k = 0
    /\ ndraws = 0
    /\ result = None
    /\ twin = [pc |-> "idle"]

SpecExamples == InitExamples /\ [][Next]_vars

\* ------------------------------------------- corpora with many successors
\* "abababacada~aaaaaaaa": after "a" come b x3, c, d, ~, a x7  (13 in all)
ExactSumCorpus ==
    <<"a", "b", "a", "b", "a", "b", "a", "c", "a", "d", "a", "~",
      "a", "a", "a", "a", "a", "a", "a", "a">>

RoundingInputs == {SkewedCorpus, ExactSumCorpus} \X {1}

InitRounding ==
    /\ \E inp \in RoundingInputs : fdata = inp[1] /\ order = inp[2]
    /\ data = fdata
    /\ i = 0
    /\ lm = EmptyDict
    /\ outlm = EmptyDict
    /\ pc = "call"
    /\ err = None
    /\ gorder = 0
    /\ nletters = 0
    /\ history = <<>>
    /\ out = <<>>
    /\ k = 0
    /\ ndraws = 0
    /\ result = None
    /\ twin = [pc |-> "idle"]

SpecRounding == InitRounding /\ [][Next]_vars

\* =================================================================== claims
\* What the corpus says, read off the padded text without running the loop.
Padded == Repeat(Sentinel, order) \o fdata
Positions == 0..(Len(Padded) - order - 1)
HistAt(j) == SubSeq(Padded, j + 1, j + order)
CharAt(j) == Padded[j + order + 1]
\* how often history h is followed by c, and by anything
Count(h, c) == Cardinality({j \in Positions : HistAt(j) = h /\ CharAt(j) = c})
Total(h) == Cardinality({j \in Positions : HistAt(j) = h})

InGen == pc \in {"gen", "returned", "gen_raised"}
GenOver == pc \in {"returned", "gen_raised"}
Matching == gorder = order /\ order >= 1
\* the key generate_letter looks up in the current step
CurrentKey == PyTail(history, gorder)

C2_LookupMissFails ==
    [][(pc = "gen" /\ k < nletters /\ CurrentKey \notin DOMAIN outlm)
        => (/\ pc' = "gen_raised"
            /\ err' = "KeyError"
            /\ out' = out
            /\ ndraws' = ndraws
            /\ result' = None)]_vars

C2_Witness ==
    /\ pc = "gen_raised"
    /\ err = "KeyError"
    /\ Matching
    /\ Len(out) >= 1
    /\ CurrentKey \notin DOMAIN outlm

\* ----------------------------------------------------------------------- C3
\* C3 as stated: with order < 1 train_char_lm counts nothing and returns no
\* table.
C3_InvalidOrderRejected ==
    order < 1 => (DOMAIN lm = {} /\ ~Trained)

\* ----------------------------------------------------------------------- C4
\* C4: for order >= 1 the keys of the table are the histories that occur in
\* the padded corpus followed by a character; a key's distribution lists each
\* character that follows it exactly once, with probability
\* count / total (as the float division gives it); it is not empty and every
\* probability lies in [0, 1].
C4_MaxLikelihoodTable ==
    (Trained /\ order >= 1) =>
        /\ DOMAIN outlm = {HistAt(j) : j \in Positions}
        /\ \A h \in DOMAIN outlm :
              LET dist == outlm[h]
              IN  /\ Len(dist) > 0
                  /\ \A a, b \in 1..Len(dist) : a # b => dist[a][1] # dist[b][1]
                  /\ {dist[j][1] : j \in 1..Len(dist)}
                        = {CharAt(j) : j \in {q \in Positions : HistAt(q) = h}}
                  /\ \A j \in 1..Len(dist) :
                        /\ dist[j][2] = FloatDiv(Count(h, dist[j][1]), Total(h))
                        /\ 0 <= dist[j][2][1]
                        /\ dist[j][2][1] <= Pow2(dist[j][2][2])

C4_Witness ==
    /\ pc = "trained"
    /\ order >= 1
    /\ \E h \in DOMAIN outlm :
          /\ Len(outlm[h]) >= 2
          /\ outlm[h][1][2] # outlm[h][2][2]

\* ----------------------------------------------------------------------- C5
\* the probabilities of dist, summed exactly, in units of 2^-(2*MantissaBits)
RECURSIVE ScaledSum(_, _)
ScaledSum(dist, j) ==
    IF j > Len(dist) THEN 0
    ELSE dist[j][2][1] * Pow2(2 * MantissaBits - dist[j][2][2]) + ScaledSum(dist, j + 1)

RECURSIVE RawTotal(_, _)
RawTotal(counter, j) ==
    IF j = 0 THEN 0 ELSE RawTotal(counter, j - 1) + counter[j][2]

Abs(n) == IF n < 0 THEN 0 - n ELSE n

\* C5: for every key of a returned table the divisor is the sum of the raw
\* counts of the key's pairs, and the probabilities sum to 1 within the
\* rounding of the divisions (half a unit in the last place for each pair).
C5_Normalized ==
    Trained =>
        \A h \in DOMAIN outlm :
            /\ h \in DOMAIN lm
            /\ Len(outlm[h]) = Len(lm[h])
            /\ \A j \in 1..Len(outlm[h]) :
                  outlm[h][j] =
                      <<lm[h][j][1], FloatDiv(lm[h][j][2], RawTotal(lm[h], Len(lm[h])))>>
            /\ Abs(ScaledSum(outlm[h], 1) - Pow2(2 * MantissaBits))
                  <= Len(outlm[h]) * Pow2(MantissaBits - 1)

C5_Witness ==
    /\ pc = "trained"
    /\ \E h \in DOMAIN outlm :
          /\ Len(outlm[h]) >= 3
          /\ ScaledSum(outlm[h], 1) # Pow2(2 * MantissaBits)

\* ----------------------------------------------------------------------- C6
\* C6: once train_char_lm has returned the table, no step of any generate_text
\* call changes it, a step that ends in a lookup miss included.
C6_TableUnchanged ==
    [][Trained => outlm' = outlm]_vars

C6_Witness ==
    /\ pc = "gen_raised"
    /\ err = "KeyError"
    /\ DOMAIN outlm # {}
    /\ CurrentKey \notin DOMAIN outlm
    /\ outlm = [h \in DOMAIN lm |-> normalize(lm[h])]

C8_ExhaustionFallsBack ==
    [][(pc = "gen" /\ k < nletters /\ CurrentKey \in DOMAIN outlm)
        => (/\ pc' = "gen"
            /\ \E j \in 1..Len(outlm[CurrentKey]) :
                  out' = Append(out, outlm[CurrentKey][j][1]))]_vars

\* ----------------------------------------------------------------------- C9
\* an occurrence of w in the padded corpus
Occurs(w) ==
    \E q \in 0..(Len(Padded) - Len(w)) : SubSeq(Padded, q + 1, q + Len(w)) = w

\* C9: with a matching order >= 1, every window of order+1 consecutive
\* characters of (order sentinels + output) occurs in the padded corpus: each
\* character produced was seen in training right after the history it follows.
C9_Unsmoothed ==
    (InGen /\ Matching) =>
        \A j \in 1..Len(out) :
            Occurs(SubSeq(Repeat(Sentinel, order) \o out, j, j + order))

C9_Witness ==
    /\ pc = "returned"
    /\ Matching
    /\ Len(out) >= 2
    /\ ~Occurs(out)

\* ---------------------------------------------------------------------- C10
\* C10: for order >= 1 the build from the empty corpus raises nothing, counts
\* nothing and returns a table with no keys.
C10_EmptyCorpus ==
    (fdata = <<>> /\ order >= 1) =>
        /\ pc # "train_raised"
        /\ DOMAIN lm = {}
        /\ Trained => DOMAIN outlm = {}

C10_Witness ==
    /\ fdata = <<>>
    /\ order >= 1
    /\ pc = "trained"
    /\ DOMAIN outlm = {}

\* ---------------------------------------------------------------------- C11
\* the number of places where w occurs in s
OccurrencesIn(s, w) ==
    Cardinality({q \in 0..(Len(s) - Len(w)) : SubSeq(s, q + 1, q + Len(w)) = w})

\* no "Firs" in s is followed by a character other than "t"
FirsOnlyBeforeT(s) ==
    \A q \in 0..(Len(s) - 5) : SubSeq(s, q + 1, q + 4) = Firs => s[q + 5] = "t"

OneStep == <<1, 0>>
OnlyT == <<<<"t", OneStep>>>>

\* C11 as stated: a corpus that contains "First" exactly once, trained at
\* order 4, maps the history "Firs" to the single pair ("t", 1.0).
C11_FirstOnce ==
    (Trained /\ order = QueryOrder /\ OccurrencesIn(fdata, First) = 1) =>
        (Firs \in DOMAIN outlm /\ outlm[Firs] = OnlyT)

\* C11, amended: a corpus that contains "First" and in which "Firs" is never
\* followed by another character than "t", trained at order 4, maps the
\* history "Firs" to the single pair ("t", 1.0).
C11_FirsDeterministic ==
    (order = QueryOrder /\ OccurrencesIn(fdata, First) >= 1 /\ FirsOnlyBeforeT(fdata)) =>
        /\ pc # "train_raised"
        /\ Trained => (Firs \in DOMAIN outlm /\ outlm[Firs] = OnlyT)

C11_Witness ==
    /\ pc = "trained"
    /\ order = QueryOrder
    /\ OccurrencesIn(fdata, First) = 2
    /\ OccurrencesIn(fdata, Firs) = 3
    /\ outlm[Firs] = OnlyT

\* ---------------------------------------------------------------------- C12
\* C12: training on "aaaa" with order 1 ends with a table whose keys are "a"
\* and "~", each mapped to the single pair ("a", 1.0).
C12_FourAs ==
    (fdata = FourAs /\ order = 1) =>
        /\ pc # "train_raised"
        /\ Trained =>
              /\ DOMAIN outlm = {<<"a">>, <<Sentinel>>}
              /\ outlm[<<"a">>] = <<<<"a", OneStep>>>>
              /\ outlm[<<Sentinel>>] = <<<<"a", OneStep>>>>

C12_Witness ==
    /\ pc = "trained"
    /\ fdata = FourAs
    /\ order = 1
    /\ lm[<<"a">>] = <<<<"a", 3>>>>

\* ---------------------------------------------------------------------- C13
\* the counter with every raw count doubled
Doubled(counter) == [j \in 1..Len(counter) |-> <<counter[j][1], 2 * counter[j][2]>>]

\* C13: normalizing a counter with every raw count doubled gives the same
\* Distribution (characters, order, probabilities) as normalizing the counter.
C13_ScaleInvariant ==
    \A h \in DOMAIN lm : normalize(Doubled(lm[h])) = normalize(lm[h])

C13_Witness ==
    /\ pc = "trained"
    /\ \E h \in DOMAIN lm :
          /\ Len(lm[h]) >= 3
          /\ \E j \in 1..Len(lm[h]) : lm[h][j][2] >= 3
          /\ outlm[h] = normalize(Doubled(lm[h]))

C15_KeyLength ==
    order >= 1 =>
        /\ \A h \in DOMAIN lm : Len(h) = order
        /\ \A h \in DOMAIN outlm : Len(h) = order

C15_Witness ==
    /\ pc = "trained"
    /\ order = 2
    /\ Cardinality(DOMAIN outlm) >= 3
    /\ \A h \in DOMAIN outlm : Len(h) = 2

\* ---------------------------------------------------------------------- C16
\* C16 as stated: the rolling history buffer starts as `order` sentinels
\* and after every generation step its length is exactly `order`.
C16_BufferLength ==
    (InGen /\ gorder >= 1) =>
        /\ Len(history) = gorder
        /\ k = 0 => history = Repeat(Sentinel, gorder)

\* C16, amended: the buffer starts as `order` sentinels; after every
\* generation step it holds order + 1 characters (the previous window and
\* the chosen character), and the key read from it has exactly `order`.
C16_BufferTail ==
    (InGen /\ gorder >= 1) =>
        /\ k = 0 => history = Repeat(Sentinel, gorder)
        /\ k >= 1 => Len(history) = gorder + 1
        /\ Len(CurrentKey) = gorder

C16_Witness ==
    /\ pc = "gen"
    /\ gorder >= 1
    /\ k >= 2
    /\ Len(history) = gorder + 1
    /\ Len(CurrentKey) = gorder

\* ---------------------------------------------------------------------- C18
\* the last n characters of w, for 0 <= n <= Len(w)
LastOf(w, n) == SubSeq(w, Len(w) - n + 1, Len(w))

\* C18: for order >= 1, at the start of generation step j the lookup key
\* is the last `order` characters of (order sentinels + the j characters
\* generated so far).
C18_WindowTracksOutput ==
    (InGen /\ gorder >= 1) =>
        /\ Len(out) = k
        /\ CurrentKey = LastOf(Repeat(Sentinel, gorder) \o out, gorder)

C18_Witness ==
    /\ pc = "gen"
    /\ gorder = 2
    /\ k = 3
    /\ out[2] # out[3]
    /\ CurrentKey = <<out[2], out[3]>>

\* ---------------------------------------------------------------------- C17
\* the largest binary exponent among the probabilities of dist[j..]
RECURSIVE DistExp(_, _)
DistExp(dist, j) ==
    IF j > Len(dist) THEN 0 ELSE Max(dist[j][2][2], DistExp(dist, j + 1))

\* the first pair at which num/2^E - (p1 + ... + pj) <= 0, without rounding
RECURSIVE ExactWalk(_, _, _, _)
ExactWalk(dist, j, num, E) ==
    IF j > Len(dist) THEN None
    ELSE LET n2 == num - dist[j][2][1] * Pow2(E - dist[j][2][2])
         IN  IF n2 <= 0 THEN dist[j][1] ELSE ExactWalk(dist, j + 1, n2, E)

ExactPick(dist, x) ==
    LET E == Max(DistExp(dist, 1), x[2])
    IN  ExactWalk(dist, 1, x[1] * Pow2(E - x[2]), E)

\* C17 as stated: for a stored Distribution and a draw x the sampling step
\* returns the character of the first index k with x - (p1 + ... + pk) <= 0,
\* the earlier pair when x lies exactly on a cumulative boundary.
C17_InverseCDF ==
    pc = "trained" =>
        \A h \in DOMAIN outlm : \A x \in Draws :
            ExactPick(outlm[h], Uniform(x)) # None =>
                SampleWalk(outlm[h], 1, Uniform(x)) = ExactPick(outlm[h], Uniform(x))

\* ---------------------------------------------------------------------- C19
\* C19: for a non-empty corpus and generation with the training order >= 1,
\* the all-sentinel history is a key of the table, and a generation step
\* misses only at the last `order` characters of the padded corpus, and only
\* when that string is nowhere in the padded corpus followed by a character.
C19_DeadEndAtTail ==
    (order >= 1 /\ fdata # <<>>) =>
        /\ Trained => Repeat(Sentinel, order) \in DOMAIN outlm
        /\ (gorder = order /\ pc = "gen_raised" /\ err = "KeyError") =>
              /\ CurrentKey = LastOf(Padded, order)
              /\ Total(CurrentKey) = 0

C19_Witness ==
    /\ pc = "gen_raised"
    /\ err = "KeyError"
    /\ Matching
    /\ Len(fdata) = 2
    /\ k = 2
    /\ CurrentKey = LastOf(Padded, order)
    /\ Repeat(Sentinel, order) \in DOMAIN outlm

\* ---------------------------------------------------------------------- C20
HasSentinel(w) == \E j \in 1..Len(w) : w[j] = Sentinel

\* C20: when the corpus has no sentinel and at least `order` characters,
\* every history with a sentinel has one successor of probability 1, and
\* generate_text with the training order produces, whatever the draws, the
\* first min(order, K) characters of the corpus as its first characters.
C20_ForcedPrefix ==
    (order >= 1 /\ ~HasSentinel(fdata) /\ Len(fdata) >= order) =>
        /\ Trained =>
              \A h \in DOMAIN outlm :
                  HasSentinel(h) => (Len(outlm[h]) = 1 /\ outlm[h][1][2] = OneStep)
        /\ (InGen /\ gorder = order) =>
              /\ \A j \in 1..Min(Len(out), order) : out[j] = fdata[j]
              /\ GenOver => Len(out) >= Min(order, nletters)

C20_Witness ==
    /\ pc = "returned"
    /\ Matching
    /\ order = 2
    /\ ~HasSentinel(fdata)
    /\ Len(fdata) = 3
    /\ fdata[1] # fdata[2]
    /\ nletters = 3
    /\ result[1] = fdata[1]
    /\ result[2] = fdata[2]

\* ---------------------------------------------------------------------- C21
\* p1 + ... + pn of the stored probabilities, as a numerator over 2^E
RECURSIVE ProbSum(_, _, _)
ProbSum(dist, j, E) ==
    IF j > Len(dist) THEN 0
    ELSE dist[j][2][1] * Pow2(E - dist[j][2][2]) + ProbSum(dist, j + 1, E)

SumsToOne(dist) ==
    LET E == DistExp(dist, 1) IN ProbSum(dist, 1, E) = Pow2(E)

\* C21 as stated: when the probabilities of the Distribution in use sum
\* exactly to 1, the loop of generate_letter returns one of its characters
\* for every draw; it never falls through without a character.
C21_NoFallThrough ==
    (InGen /\ CurrentKey \in DOMAIN outlm /\ SumsToOne(outlm[CurrentKey])) =>
        ~(pc = "gen_raised" /\ err = "TypeError")

====
